---- MODULE Spec2Model ----
(***************************************************************************)
(* Model of UsersService (src/unnamed/part_001, lines 172-321): user       *)
(* registration, login, listing and the by-id placeholders, running over   *)
(* a TypeORM repository of User rows.                                      *)
(*                                                                         *)
(* Every handler is async.  A handler runs atomically from one await of a  *)
(* repository call to the next, so the repository round trips are the      *)
(* atomic steps: create has two (findOne, save), login has one (findOne),  *)
(* getAllUsers has one (find).  The work between them (validation,         *)
(* bcrypt.hash, bcrypt.compare, jwtService.sign) reads only the call's own *)
(* locals and is folded into the step that follows or precedes it.         *)
(***************************************************************************)
EXTENDS Integers, Sequences, FiniteSets, TLC

VARIABLES
    store,      \* rows of the user table, in insertion order
    nextId,     \* the table's auto-increment counter (PrimaryGeneratedColumn)
    calls,      \* per caller: the request it has in flight (locals, position)
    last,       \* the request that ended most recently, with how it ended
    nOps,       \* number of requests started so far
    nCreated    \* number of Success/201 responses create has returned

vars == <<store, nextId, calls, last, nOps, nCreated>>

(***************************************************************************)
(* Bounds                                                                  *)
(***************************************************************************)
MaxOps == 3     \* requests started in one behaviour
MaxId == 2      \* ids passed to findOne / update / remove are 1..MaxId

(* The two requests that may be in flight at the same time. *)
Callers == {"A", "B"}

(***************************************************************************)
(* Values                                                                  *)
(***************************************************************************)
Undefined == "<undefined>"      \* a property the DTO does not carry

(* JavaScript truthiness of a string-or-undefined value: `!v` *)
Falsy(v) == v = Undefined \/ v = ""

UserRoles == [User |-> "user", Admin |-> "admin"]

GoodEmails == {"jane@x.com", "bob@x.com"}
GoodPasswords == {"secret123", "hunter2"}
RoleInputs == {Undefined, "", "user", "admin"}
Salts == {"s1", "s2"}
Blanks == {Undefined, ""}
RequiredFields == {"firstName", "lastName", "email", "password"}

(* CreateUserDto values with all four required fields present.  The role   *)
(* varies for one email and password; the other emails and passwords come  *)
(* without a role.                                                         *)
CompleteDtos ==
    { d \in [firstName : {"Jane"}, lastName : {"Doe"}, email : GoodEmails,
             password : GoodPasswords, role : RoleInputs] :
        d.role = Undefined \/ (d.email = "jane@x.com" /\ d.password = "secret123") }

(* A complete DTO with the fields of `missing` replaced by `blank`. *)
Without(missing, blank) ==
    [f \in RequiredFields \cup {"role"} |->
        IF f \in missing THEN blank
        ELSE CASE f = "firstName" -> "Jane"
               [] f = "lastName" -> "Doe"
               [] f = "email" -> "jane@x.com"
               [] f = "password" -> "secret123"
               [] OTHER -> Undefined]

(* CreateUserDto values with required fields missing: every non-empty      *)
(* subset of the four left empty, and each single field left undefined.    *)
IncompleteDtos ==
    { Without(missing, "") : missing \in (SUBSET RequiredFields) \ {{}} }
        \cup { Without({f}, Undefined) : f \in RequiredFields }

CreateUserDtos == CompleteDtos \cup IncompleteDtos

LoginDtos ==
    [email : {""} \cup GoodEmails, password : {""} \cup GoodPasswords]
        \cup {[email |-> Undefined, password |-> Undefined]}

Ids == 1..MaxId

(* payload: any | null *)
Null == [kind |-> "null"]
StringPayload(s) == [kind |-> "string", value |-> s]
ArrayPayload(a) == [kind |-> "array", value |-> a]

(* The absent row: what findOne resolves to when nothing matches (null). *)
NoUser ==
    [id |-> 0, firstName |-> Undefined, lastName |-> Undefined,
     email |-> Undefined, password |-> Undefined, role |-> Undefined]

(* A row of the user table (User entity). *)
NewUser(firstName, lastName, email, password, role) ==
    [id |-> 0, firstName |-> firstName, lastName |-> lastName,
     email |-> email, password |-> password, role |-> role]

(* IResponse as each handler initialises it. *)
InitialResponse ==
    [status |-> "Failure", message |-> "", payload |-> Null, code |-> 400]

(***************************************************************************)
(* bcrypt.  hash(password, rounds) draws a salt and yields the string      *)
(* "$2b$<rounds>$<salt><digest>"; compare(password, stored) re-derives the *)
(* digest from the salt embedded in `stored`.  The digest strings are      *)
(* tabulated for the passwords and salts of the model.                     *)
(***************************************************************************)
BcryptTable ==
    { <<"secret123", "s1", "$2b$10$s1.Xw7Qe">>,
      <<"secret123", "s2", "$2b$10$s2.p0LrA">>,
      <<"hunter2", "s1", "$2b$10$s1.9dKmU">>,
      <<"hunter2", "s2", "$2b$10$s2.Tz4cY">> }

BcryptHash(password, salt) ==
    (CHOOSE t \in BcryptTable : t[1] = password /\ t[2] = salt)[3]

BcryptCompare(password, stored) ==
    \E t \in BcryptTable : t[1] = password /\ t[3] = stored

(***************************************************************************)
(* jwtService.sign(payload): header.claims.signature                       *)
(***************************************************************************)
JwtSign(payload) == <<"HS256", payload, "sig">>

(***************************************************************************)
(* Repository<User>                                                        *)
(***************************************************************************)
Rows == {store[i] : i \in 1..Len(store)}

(* findOne({ where: { email } }): some matching row, or null.  The query   *)
(* has no ORDER BY, so with several matches any of them may come back.     *)
RepoFindOne(email) ==
    IF \E u \in Rows : u.email = email
    THEN {u \in Rows : u.email = email}
    ELSE {NoUser}

(* find(): every row *)
RepoFind == store

(* save(user): insert with the next generated id; resolves to the row.     *)
(* The email column carries no unique constraint (@Column()).              *)
RepoSave(user) == [user EXCEPT !.id = nextId]

(* Variant: the email column declared unique, so a second row with the     *)
(* same email is refused by the table.                                     *)
UniqueViolation_Enforced(user) == \E u \in Rows : u.email = user.email

(* Whether the table refuses the row.  The email column is a plain         *)
(* @Column(): no unique constraint, so it never does.                      *)
UniqueViolation(user) == FALSE

(* What a repository call may do: resolve, or reject with an Error (the    *)
(* driver's QueryFailedError and the like).                                *)
Resolved == [rejected |-> FALSE, isError |-> FALSE, message |-> Undefined]
StoreError ==
    [rejected |-> TRUE, isError |-> TRUE, message |-> "Connection terminated"]
Unreliable == {Resolved, StoreError}

(* new Error(message) *)
Error(message) == [rejected |-> TRUE, isError |-> TRUE, message |-> message]

(***************************************************************************)
(* A request: the handler's position (pc), its argument and locals, how it *)
(* ended (outcome: returned a value or threw one), the number of           *)
(* repository reads and writes it has issued and how the repository        *)
(* answered the last of them.                                              *)
(***************************************************************************)
Idle ==
    [op |-> "none", pc |-> "idle", dto |-> Null, role |-> Undefined,
     found |-> NoUser, saved |-> NoUser, users |-> <<>>,
     outcome |-> "pending", value |-> Null, reads |-> 0, writes |-> 0,
     reply |-> Resolved]

Begin(op, dto) == [Idle EXCEPT !.op = op, !.dto = dto, !.pc = "running"]

Return(c, value) == [c EXCEPT !.pc = "done", !.outcome = "returned", !.value = value]

Throw(c, error) == [c EXCEPT !.pc = "done", !.outcome = "thrown", !.value = error]

(* A caller can send a request when it has none in flight. *)
CanStart(p) == calls[p].pc = "idle" /\ nOps < MaxOps

(* The request of caller p ends as c. *)
Finish(p, c) ==
    /\ calls' = [calls EXCEPT ![p] = Idle]
    /\ last' = c

(* The request of caller p awaits its next repository call as c. *)
Await(p, c) ==
    /\ calls' = [calls EXCEPT ![p] = c]
    /\ last' = last

TypeOK ==
    /\ store \in Seq([id : 1..MaxOps, firstName : STRING, lastName : STRING,
                      email : STRING, password : STRING, role : STRING])
    /\ nextId \in 1..(MaxOps + 1)
    /\ nOps \in 0..MaxOps
    /\ DOMAIN calls = Callers
    /\ \A p \in Callers : calls[p].pc \in {"idle", "save"}
    /\ last.pc \in {"idle", "done"}
    /\ nCreated \in 0..MaxOps

Init ==
    /\ store = <<>>
    /\ nextId = 1
    /\ calls = [p \in Callers |-> Idle]
    /\ last = Idle
    /\ nOps = 0
    /\ nCreated = 0

(* Variant: the four tests joined by && instead of ||. *)
MissingRequired_AllOf(dto) ==
    Falsy(dto.firstName) /\ Falsy(dto.lastName)
        /\ Falsy(dto.email) /\ Falsy(dto.password)

(* !firstName || !lastName || !email || !password *)
MissingRequired(dto) ==
    Falsy(dto.firstName) \/ Falsy(dto.lastName)
        \/ Falsy(dto.email) \/ Falsy(dto.password)

(* Variant: the role of the DTO is dropped, every row gets the default. *)
ResolveRole_AlwaysUser(dto) == UserRoles.User

(* createUserDto.role || UserRoles.User *)
ResolveRole(dto) == IF Falsy(dto.role) THEN UserRoles.User ELSE dto.role

(* Variant: the result of the lookup is ignored. *)
UserExists_Ignored(userExist) == FALSE

(* if (userExist) *)
UserExists(userExist) == userExist # NoUser

(* Variant: user.password = password, as the first version of create had it. *)
HashedPassword_Plain(password, salt) == password

(* user.password = await bcrypt.hash(password, 10) *)
HashedPassword(password, salt) == BcryptHash(password, salt)

(***************************************************************************)
(* create(createUserDto), up to and including the findOne round trip       *)
(* (part_001 lines 179-198).                                               *)
(***************************************************************************)
CreateLookup(p, dto, reply) ==
    /\ CanStart(p)
    /\ nOps' = nOps + 1
    /\ UNCHANGED <<store, nextId, nCreated>>
    /\ LET c == Begin("create", dto)
           response == InitialResponse
       IN  IF MissingRequired(dto)
           THEN Finish(p, Return(c, [response EXCEPT
                                  !.message = "All fields are required"]))
           ELSE LET role == ResolveRole(dto)
                    c1 == [c EXCEPT !.role = role, !.reads = 1, !.reply = reply]
                IN  IF reply.rejected
                    THEN \* findOne sits outside the try block: the rejection escapes
                         Finish(p, Throw(c1, reply))
                    ELSE \E userExist \in RepoFindOne(dto.email) :
                           IF UserExists(userExist)
                           THEN Finish(p, Return([c1 EXCEPT !.found = userExist],
                                    [response EXCEPT !.message =
                                        "User with this email already exists"]))
                           ELSE Await(p, [c1 EXCEPT !.found = userExist,
                                                    !.pc = "save"])

(***************************************************************************)
(* create, from bcrypt.hash to the end: the save round trip                *)
(* (part_001 lines 199-219).                                               *)
(***************************************************************************)
CreateSave(p, salt, reply) ==
    /\ calls[p].op = "create"
    /\ calls[p].pc = "save"
    /\ UNCHANGED nOps
    /\ LET c == [calls[p] EXCEPT !.writes = 1, !.reply = reply]
           dto == c.dto
           response == InitialResponse
           hashedPassword == HashedPassword(dto.password, salt)
           user == NewUser(dto.firstName, dto.lastName, dto.email,
                           hashedPassword, c.role)
       IN  IF reply.rejected \/ UniqueViolation(user)
           THEN /\ Finish(p, Throw(c, Error("Error creating user")))
                /\ UNCHANGED <<store, nextId, nCreated>>
           ELSE LET savedUser == RepoSave(user)
                IN  /\ store' = Append(store, savedUser)
                    /\ nextId' = nextId + 1
                    /\ nCreated' = nCreated + 1
                    /\ Finish(p, Return([c EXCEPT !.saved = savedUser],
                                  [response EXCEPT
                                      !.status = "Success",
                                      !.message = "User created successfully",
                                      !.code = 201]))

(***************************************************************************)
(* login(loginDto) (part_001 lines 222-269).  Its one repository round     *)
(* trip is findOne; bcrypt.compare and jwtService.sign work on the row it  *)
(* returned.                                                               *)
(***************************************************************************)
(* !email || !password *)
MissingCredentials(dto) == Falsy(dto.email) \/ Falsy(dto.password)

(* Variant: the catch block puts a fixed text in the message. *)
LoginCatch_Generic(response, error) ==
    [response EXCEPT !.message = "Error during login"]

(* the catch block of login *)
LoginCatch(response, error) ==
    [response EXCEPT !.message =
        IF error.isError THEN error.message
        ELSE "An unknown error occurred during login"]

(* the claims handed to jwtService.sign *)
LoginClaims(user) ==
    [userId |-> user.id, firstName |-> user.firstName,
     lastName |-> user.lastName, email |-> user.email, role |-> user.role]

(* Variant: the success branch sets status, message and payload but leaves *)
(* response.code at its initial 400.                                       *)
LoginTry_CodeNotSet(response, dto, user) ==
    IF user = NoUser
    THEN [response EXCEPT !.message = "User not found"]
    ELSE IF ~BcryptCompare(dto.password, user.password)
    THEN [response EXCEPT !.message = "Invalid password"]
    ELSE [response EXCEPT
             !.status = "Success",
             !.message = "Login successful",
             !.payload = StringPayload(JwtSign(LoginClaims(user)))]

(* the body of login's try block, given the row findOne resolved to *)
LoginTry(response, dto, user) ==
    IF user = NoUser
    THEN [response EXCEPT !.message = "User not found"]
    ELSE IF ~BcryptCompare(dto.password, user.password)
    THEN [response EXCEPT !.message = "Invalid password"]
    ELSE [response EXCEPT
             !.status = "Success",
             !.message = "Login successful",
             !.payload = StringPayload(JwtSign(LoginClaims(user))),
             !.code = 200]

Login(p, dto, reply) ==
    /\ CanStart(p)
    /\ nOps' = nOps + 1
    /\ UNCHANGED <<store, nextId, nCreated>>
    /\ LET c == Begin("login", dto)
           response == InitialResponse
       IN  IF MissingCredentials(dto)
           THEN Finish(p, Return(c, [response EXCEPT
                              !.message = "Email and password are required"]))
           ELSE IF reply.rejected
           THEN Finish(p, Return([c EXCEPT !.reads = 1, !.reply = reply],
                                 LoginCatch(response, reply)))
           ELSE \E user \in RepoFindOne(dto.email) :
                    Finish(p, Return([c EXCEPT !.reads = 1, !.found = user],
                                     LoginTry(response, dto, user)))

(***************************************************************************)
(* getAllUsers() (part_001 lines 271-308)                                  *)
(***************************************************************************)
(* Variant: the row handed out as it is. *)
ToUserResponse_WholeRow(user) == user

(* UserResponse: the row without its password *)
ToUserResponse(user) ==
    [id |-> user.id, firstName |-> user.firstName, lastName |-> user.lastName,
     email |-> user.email, role |-> user.role]

(* new NotFoundException(message): an HttpException, which is an Error     *)
NotFoundException(message) == Error(message)

(* Variant: the catch block of the first version of getAllUsers, which     *)
(* overwrote the message.                                                  *)
GetAllCatch_Generic(response, error) ==
    [response EXCEPT !.message = "Error retrieving users"]

(* the catch block of getAllUsers *)
GetAllCatch(response, error) ==
    [response EXCEPT !.message =
        IF error.isError THEN error.message
        ELSE "An unknown error occurred while retrieving users"]

(* the body of getAllUsers' try block, given the rows find resolved to *)
GetAllTry(response, users) ==
    IF Len(users) > 0
    THEN [response EXCEPT
             !.status = "Success",
             !.message = "Users retrieved successfully",
             !.payload = ArrayPayload([i \in 1..Len(users) |->
                                          ToUserResponse(users[i])]),
             !.code = 200]
    ELSE GetAllCatch(response, NotFoundException("No users found"))

GetAllUsers(p, reply) ==
    /\ CanStart(p)
    /\ nOps' = nOps + 1
    /\ UNCHANGED <<store, nextId, nCreated>>
    /\ LET c == [Begin("getAllUsers", Null) EXCEPT !.reads = 1, !.reply = reply]
           response == InitialResponse
       IN  IF reply.rejected
           THEN Finish(p, Return(c, GetAllCatch(response, reply)))
           ELSE Finish(p, Return([c EXCEPT !.users = RepoFind],
                                 GetAllTry(response, RepoFind)))

(***************************************************************************)
(* findOne(id), update(id, updateUserDto), remove(id)                      *)
(* (part_001 lines 310-320): template strings, nothing else.               *)
(***************************************************************************)
UpdateUserDtos == {[email |-> "bob@x.com"]}

FindOneText(id) == <<"This action returns a #", id, " user">>
UpdateText(id) == <<"This action updates a #", id, " user">>
RemoveText(id) == <<"This action removes a #", id, " user">>

FindOne(p, id) ==
    /\ CanStart(p)
    /\ nOps' = nOps + 1
    /\ Finish(p, Return(Begin("findOne", [id |-> id]), FindOneText(id)))
    /\ UNCHANGED <<store, nextId, nCreated>>

Update(p, id, updateUserDto) ==
    /\ CanStart(p)
    /\ nOps' = nOps + 1
    /\ Finish(p, Return(Begin("update", [id |-> id, body |-> updateUserDto]),
                        UpdateText(id)))
    /\ UNCHANGED <<store, nextId, nCreated>>

(* Variant: remove(id) deletes the row with that id. *)
Remove_Deletes(p, id) ==
    /\ CanStart(p)
    /\ nOps' = nOps + 1
    /\ Finish(p, Return(Begin("remove", [id |-> id]), RemoveText(id)))
    /\ store' = SelectSeq(store, LAMBDA u : u.id # id)
    /\ UNCHANGED <<nextId, nCreated>>

Remove(p, id) ==
    /\ CanStart(p)
    /\ nOps' = nOps + 1
    /\ Finish(p, Return(Begin("remove", [id |-> id]), RemoveText(id)))
    /\ UNCHANGED <<store, nextId, nCreated>>

(***************************************************************************)
(* Specifications.  Spec: the repository always answers.  FaultSpec: any   *)
(* repository call may also be rejected.                                   *)
(***************************************************************************)
Next ==
    \E p \in Callers :
        \/ \E dto \in CreateUserDtos : CreateLookup(p, dto, Resolved)
        \/ \E salt \in Salts : CreateSave(p, salt, Resolved)
        \/ \E dto \in LoginDtos : Login(p, dto, Resolved)
        \/ GetAllUsers(p, Resolved)
        \/ \E id \in Ids : FindOne(p, id)
        \/ \E id \in Ids, dto \in UpdateUserDtos : Update(p, id, dto)
        \/ \E id \in Ids : Remove(p, id)

FaultNext ==
    \E p \in Callers :
        \/ \E dto \in CreateUserDtos, reply \in Unreliable :
              CreateLookup(p, dto, reply)
        \/ \E salt \in Salts, reply \in Unreliable : CreateSave(p, salt, reply)
        \/ \E dto \in LoginDtos, reply \in Unreliable : Login(p, dto, reply)
        \/ \E reply \in Unreliable : GetAllUsers(p, reply)
        \/ \E id \in Ids : FindOne(p, id)
        \/ \E id \in Ids, dto \in UpdateUserDtos : Update(p, id, dto)
        \/ \E id \in Ids : Remove(p, id)

Spec == Init /\ [][Next]_vars

FaultSpec == Init /\ [][FaultNext]_vars

(***************************************************************************)
(* Properties.                                                             *)
(*                                                                         *)
(* Vocabulary for steps: a request starts when nOps grows; it ends when    *)
(* the number of ended requests grows, and `last` in the new state is then *)
(* that request.  A create that passed its lookup does not end: it shows   *)
(* as the new in-flight request of its caller.                             *)
(***************************************************************************)
Pending == {p \in Callers : calls[p].pc = "save"}
Ended == nOps - Cardinality(Pending)

StartsNow == nOps' = nOps + 1
EndsNow == Ended' = Ended + 1

(* This step starts a create and leaves it awaiting its save. *)
CreateGoesOn ==
    /\ StartsNow
    /\ ~EndsNow
    /\ \E p \in Callers : calls[p].pc = "idle" /\ calls'[p].pc = "save"

(* This step starts a create and ends it at once, as `last`. *)
CreateEndsAtOnce == StartsNow /\ EndsNow /\ last'.op = "create"

(* This step starts a create. *)
CreateStarts == CreateEndsAtOnce \/ CreateGoesOn

(* The DTO of the create this step starts. *)
StartedDto ==
    IF EndsNow THEN last'.dto
    ELSE calls'[CHOOSE p \in Callers :
                   calls[p].pc = "idle" /\ calls'[p].pc = "save"].dto

IsComplete(dto) == \A f \in RequiredFields : dto[f] \notin Blanks

(* This step is the save of caller p's create, and ends it. *)
CreateSaves(p) == calls[p].pc = "save" /\ calls'[p].pc = "idle"

HasEmail(email) == \E u \in Rows : u.email = email

Envelope(status, code, message, payload) ==
    [status |-> status, message |-> message, payload |-> payload, code |-> code]

Returned(c, envelope) == c.outcome = "returned" /\ c.value = envelope

(* C1: a register call with all required fields whose email is the email   *)
(* of a row already stored returns Failure / 400 / "User with this email   *)
(* already exists", and leaves the stored rows as they were: it ends at    *)
(* once, having written nothing.                                           *)
C1_DuplicateEmailRejected ==
    [][(CreateStarts /\ IsComplete(StartedDto) /\ HasEmail(StartedDto.email))
              => /\ CreateEndsAtOnce
                 /\ Returned(last', Envelope("Failure", 400,
                        "User with this email already exists", Null))
                 /\ last'.writes = 0
                 /\ store' = store]_vars

(* A second registration of a stored email has just been rejected. *)
C1_Witness ==
    /\ last.op = "create"
    /\ nCreated >= 1
    /\ HasEmail(last.dto.email)
    /\ Returned(last, Envelope("Failure", 400,
                   "User with this email already exists", Null))
    /\ Len(store) = nCreated

(* C2: a register call with any non-empty subset of firstName, lastName,   *)
(* email, password undefined or empty returns Failure / 400 / "All fields  *)
(* are required" with payload null, issues no repository read or write,   *)
(* leaves the store unchanged, and does so whether or not its email is     *)
(* already stored.                                                         *)
C2_AllFieldsRequired ==
    [][(CreateStarts /\ ~IsComplete(StartedDto))
              => /\ CreateEndsAtOnce
                 /\ Returned(last', Envelope("Failure", 400,
                        "All fields are required", Null))
                 /\ last'.reads = 0
                 /\ last'.writes = 0
                 /\ store' = store
                 /\ nextId' = nextId]_vars

(* A registration lacking its first name only, with a stored email, has    *)
(* just been answered "All fields are required".                           *)
C2_Witness ==
    /\ last.op = "create"
    /\ last.dto.firstName \in Blanks
    /\ last.dto.email \notin Blanks
    /\ HasEmail(last.dto.email)
    /\ Returned(last, Envelope("Failure", 400, "All fields are required", Null))
    /\ last.reads = 0

(* C3: a register call with all required fields and an email no stored row *)
(* has passes the lookup without touching the store; its save then returns *)
(* Success / 201 / "User created successfully" and adds exactly one row,   *)
(* with the call's names and email, whose password verifies against the    *)
(* submitted plaintext (bcrypt.compare) and is not the plaintext.          *)
C3_RegisterStoresHash ==
    [][/\ (CreateStarts /\ IsComplete(StartedDto) /\ ~HasEmail(StartedDto.email))
                => CreateGoesOn /\ store' = store
       /\ \A p \in Callers :
            CreateSaves(p)
                => /\ Returned(last', Envelope("Success", 201,
                          "User created successfully", Null))
                   /\ last'.dto = calls[p].dto
                   /\ Len(store') = Len(store) + 1
                   /\ SubSeq(store', 1, Len(store)) = store
                   /\ LET row == store'[Len(store')]
                          dto == calls[p].dto
                      IN  /\ row.firstName = dto.firstName
                          /\ row.lastName = dto.lastName
                          /\ row.email = dto.email
                          /\ BcryptCompare(dto.password, row.password)
                          /\ row.password # dto.password
                          /\ \A u \in Rows : u.id # row.id]_vars

(* A registration has just succeeded and its row is in the store. *)
C3_Witness ==
    /\ last.op = "create"
    /\ Returned(last, Envelope("Success", 201, "User created successfully", Null))
    /\ \E i \in 1..Len(store) :
          /\ store[i].email = last.dto.email
          /\ store[i] = last.saved
          /\ BcryptCompare(last.dto.password, store[i].password)
          /\ store[i].password # last.dto.password

(* This step is a login; login ends in the step it starts in. *)
LoginStep == StartsNow /\ EndsNow /\ last'.op = "login"

(* The rows with this email whose stored hash the password verifies against *)
Verifying(dto) ==
    {u \in Rows : u.email = dto.email /\ BcryptCompare(dto.password, u.password)}

IsToken(payload) == payload.kind = "string" /\ Len(payload.value) > 0

(* C4: login is decided by the first failing check: email or password      *)
(* empty -> Failure/400 "Email and password are required"; no stored row   *)
(* with the email -> Failure/400 "User not found"; the password verifies   *)
(* against no stored hash of that email -> Failure/400 "Invalid password"; *)
(* otherwise Success/200 "Login successful" with a non-empty token.  So    *)
(* login succeeds if and only if a row with that email exists whose stored *)
(* hash the password verifies against.                                     *)
C4_LoginDecidedInOrder ==
    [][LET dto == last'.dto IN
          LoginStep
              => /\ store' = store
                 /\ last'.outcome = "returned"
                 /\ IF dto.email \in Blanks \/ dto.password \in Blanks
                    THEN last'.value = Envelope("Failure", 400,
                            "Email and password are required", Null)
                    ELSE IF ~HasEmail(dto.email)
                    THEN last'.value = Envelope("Failure", 400,
                            "User not found", Null)
                    ELSE IF Verifying(dto) = {}
                    THEN last'.value = Envelope("Failure", 400,
                            "Invalid password", Null)
                    ELSE /\ last'.value.status = "Success"
                         /\ last'.value.code = 200
                         /\ last'.value.message = "Login successful"
                         /\ IsToken(last'.value.payload)]_vars

(* The same order of checks, with the password check read as the code      *)
(* makes it: against the hash of the row findOne resolved to.  With one    *)
(* row per email this is C4 as stated.                                     *)
LoginDecidedByFoundRow ==
    [][LET dto == last'.dto IN
          LoginStep
              => /\ store' = store
                 /\ last'.outcome = "returned"
                 /\ IF dto.email \in Blanks \/ dto.password \in Blanks
                    THEN last'.value = Envelope("Failure", 400,
                            "Email and password are required", Null)
                    ELSE IF ~HasEmail(dto.email)
                    THEN last'.value = Envelope("Failure", 400,
                            "User not found", Null)
                    ELSE \E u \in Rows :
                           /\ u.email = dto.email
                           /\ IF ~BcryptCompare(dto.password, u.password)
                              THEN last'.value = Envelope("Failure", 400,
                                      "Invalid password", Null)
                              ELSE /\ last'.value.status = "Success"
                                   /\ last'.value.code = 200
                                   /\ last'.value.message = "Login successful"
                                   /\ IsToken(last'.value.payload)
                                   /\ last'.value.payload.value[2].userId = u.id]_vars

(* This step is getAllUsers(), which ends in the step it starts in. *)
ListStep == StartsNow /\ EndsNow /\ last'.op = "getAllUsers"

(* C5 as claimed: listing an empty store returns Failure / 400 / payload   *)
(* null with a generic message that is not "No users found".               *)
C5_EmptyListGenericMessage ==
    [][(ListStep /\ Len(store) = 0)
          => /\ last'.outcome = "returned"
             /\ last'.value.status = "Failure"
             /\ last'.value.code = 400
             /\ last'.value.payload = Null
             /\ last'.value.message # "No users found"]_vars

(* C5 as amended: listing an empty store returns Failure / 400 / payload   *)
(* null, and the message is the not-found error's own "No users found":    *)
(* the catch block copies error.message into the envelope.                 *)
C5_EmptyListNoUsersFound ==
    [][(ListStep /\ Len(store) = 0)
          => /\ Returned(last', Envelope("Failure", 400, "No users found", Null))
             /\ store' = store]_vars

(* An empty store has just been listed. *)
C5_Witness ==
    /\ last.op = "getAllUsers"
    /\ last.users = <<>>
    /\ Len(store) = 0
    /\ Returned(last, Envelope("Failure", 400, "No users found", Null))

(* C6: when N >= 1 registrations have succeeded, list users returns        *)
(* Success / 200 with a payload of exactly N entries, the i-th carrying    *)
(* exactly id, firstName, lastName, email and role of the i-th stored row  *)
(* (so no password).                                                       *)
C6_ListReturnsEveryRow ==
    [][(ListStep /\ nCreated >= 1)
          => /\ last'.outcome = "returned"
             /\ last'.value.status = "Success"
             /\ last'.value.code = 200
             /\ last'.value.payload.kind = "array"
             /\ store' = store
             /\ LET entries == last'.value.payload.value
                IN  /\ Len(entries) = nCreated
                    /\ Len(entries) = Len(store)
                    /\ \A i \in 1..Len(entries) :
                          /\ DOMAIN entries[i] =
                                {"id", "firstName", "lastName", "email", "role"}
                          /\ \A f \in DOMAIN entries[i] :
                                entries[i][f] = store[i][f]]_vars

(* Two registrations succeeded and the list just returned has two entries. *)
C6_Witness ==
    /\ last.op = "getAllUsers"
    /\ nCreated = 2
    /\ last.outcome = "returned"
    /\ last.value.status = "Success"
    /\ last.value.payload.kind = "array"
    /\ Len(last.value.payload.value) = 2
    /\ Len(store) = 2

(* This step is findOne / update / remove with this id. *)
ByIdStep(op, id) ==
    StartsNow /\ EndsNow /\ last'.op = op /\ last'.dto.id = id

(* C7: for every id, stored or not, findOne, update and remove return the  *)
(* placeholder text naming the action and the id, and leave the store as   *)
(* it was: the row a remove names is still there to be listed and to log   *)
(* in.                                                                     *)
C7_ByIdPlaceholders ==
    [][\A id \in Ids :
          /\ ByIdStep("findOne", id)
                => Returned(last', <<"This action returns a #", id, " user">>)
          /\ ByIdStep("update", id)
                => Returned(last', <<"This action updates a #", id, " user">>)
          /\ ByIdStep("remove", id)
                => Returned(last', <<"This action removes a #", id, " user">>)
          /\ \A op \in {"findOne", "update", "remove"} :
                ByIdStep(op, id)
                    => /\ store' = store
                       /\ nextId' = nextId
                       /\ last'.reads = 0
                       /\ last'.writes = 0]_vars

(* remove was just called with the id of a stored row, and the row is      *)
(* still stored.                                                           *)
C7_Witness ==
    /\ last.op = "remove"
    /\ \E u \in Rows : u.id = last.dto.id
    /\ Returned(last, <<"This action removes a #", last.dto.id, " user">>)

(* C8: no two stored rows have the same email. *)
C8_EmailUnique ==
    \A i, j \in 1..Len(store) : i # j => store[i].email # store[j].email

(* C9: nothing guards create's check-then-insert.  A lookup for an email   *)
(* no row has passes even while another create for that email is in        *)
(* flight, and a save goes through, returning Success / 201 and adding its *)
(* row, even when a row with its email has been stored since its lookup.   *)
C9_CheckThenInsertUnguarded ==
    [][/\ (/\ CreateStarts
            /\ IsComplete(StartedDto)
            /\ ~HasEmail(StartedDto.email)
            /\ \E q \in Pending : calls[q].dto.email = StartedDto.email)
                => CreateGoesOn
       /\ \A p \in Callers :
            (CreateSaves(p) /\ HasEmail(calls[p].dto.email))
                => /\ last'.outcome = "returned"
                   /\ last'.value.status = "Success"
                   /\ last'.value.code = 201
                   /\ Len(store') = Len(store) + 1
                   /\ store'[Len(store')].email = calls[p].dto.email]_vars

(* Two requests were made, both registrations of one email; both returned  *)
(* Success / 201 and the store holds two rows with that email.             *)
C9_Witness ==
    /\ nOps = 2
    /\ nCreated = 2
    /\ Len(store) = 2
    /\ store[1].email = store[2].email
    /\ Returned(last, Envelope("Success", 201, "User created successfully", Null))
    /\ Pending = {}

(* C10: a rejected repository call ends create in a throw and no envelope: *)
(* the save's rejection as the generic Error "Error creating user", the    *)
(* lookup's rejection as the repository's own error.  login and            *)
(* getAllUsers never throw: a rejected repository call ends them in a      *)
(* Failure / 400 envelope with payload null and the error's message.       *)
C10_ErrorPropagation ==
    /\ last.op \in {"login", "getAllUsers"} => last.outcome = "returned"
    /\ last.reply.rejected =>
          /\ last.op \in {"create", "login", "getAllUsers"}
          /\ (last.op = "create" /\ last.writes = 1)
                => /\ last.outcome = "thrown"
                   /\ last.value.isError
                   /\ last.value.message = "Error creating user"
          /\ (last.op = "create" /\ last.writes = 0)
                => /\ last.outcome = "thrown"
                   /\ last.value = last.reply
          /\ last.op \in {"login", "getAllUsers"}
                => Returned(last, Envelope("Failure", 400,
                                           last.reply.message, Null))

(* The repository has just rejected login's findOne. *)
C10_Witness ==
    /\ last.op = "login"
    /\ last.reply.rejected
    /\ last.reads = 1
    /\ Returned(last, Envelope("Failure", 400, "Connection terminated", Null))

(* C11: the row a successful registration adds has the role of the DTO     *)
(* when the DTO gives one (user or admin) and "user" when the DTO's role   *)
(* is undefined or empty; the list reports each row with that row's role,  *)
(* and the token of a successful login carries, with the id of a row that  *)
(* has the login's email, that row's role.                                 *)
C11_RoleResolvedAndReported ==
    [][/\ \A p \in Callers :
            CreateSaves(p)
                => /\ Len(store') = Len(store) + 1
                   /\ LET row == store'[Len(store')]
                          given == calls[p].dto.role
                      IN  /\ given \in {"user", "admin"} => row.role = given
                          /\ given \in Blanks => row.role = "user"
                          /\ row.role \in {"user", "admin"}
       /\ (ListStep /\ Len(store) >= 1)
            => /\ last'.outcome = "returned"
               /\ last'.value.payload.kind = "array"
               /\ Len(last'.value.payload.value) = Len(store)
               /\ \A i \in 1..Len(store) :
                     /\ last'.value.payload.value[i].id = store[i].id
                     /\ last'.value.payload.value[i].role = store[i].role
       /\ (LoginStep /\ last'.outcome = "returned"
                     /\ last'.value.status = "Success")
            => /\ IsToken(last'.value.payload)
               /\ LET claims == last'.value.payload.value[2]
                  IN  \E u \in Rows :
                        /\ u.email = last'.dto.email
                        /\ claims.userId = u.id
                        /\ claims.email = u.email
                        /\ claims.role = u.role]_vars

(* A registration that asked for the admin role succeeded, and a login     *)
(* with its email and password has just returned a token whose claims name *)
(* that row and the admin role.                                            *)
C11_Witness ==
    /\ last.op = "login"
    /\ last.outcome = "returned"
    /\ last.value.status = "Success"
    /\ IsToken(last.value.payload)
    /\ last.value.payload.value[2].role = "admin"
    /\ \E u \in Rows : /\ u.id = last.value.payload.value[2].userId
                        /\ u.email = last.dto.email
                        /\ u.role = "admin"

(* C12: every envelope register, login or list users returns is            *)
(* consistent: status is Success exactly when code is 200 or 201; a        *)
(* Failure has code 400 and payload null; a Success from register has code *)
(* 201 and payload null, from login code 200 and a token, from list users  *)
(* code 200 and a non-empty list.  And the store changes only in a step    *)
(* that ends a register with Success: login, list users, the by-id calls,  *)
(* a register that returns Failure or throws, and a register's lookup      *)
(* leave it as it was.                                                     *)
C12_EnvelopesConsistent ==
    [][/\ (/\ EndsNow
            /\ last'.op \in {"create", "login", "getAllUsers"}
            /\ last'.outcome = "returned")
            => LET r == last'.value
               IN  /\ r.status \in {"Success", "Failure"}
                   /\ r.status = "Success" <=> r.code \in {200, 201}
                   /\ r.status = "Failure" => r.code = 400 /\ r.payload = Null
                   /\ r.status = "Success" =>
                         CASE last'.op = "create" ->
                                r.code = 201 /\ r.payload = Null
                           [] last'.op = "login" ->
                                r.code = 200 /\ IsToken(r.payload)
                           [] last'.op = "getAllUsers" ->
                                /\ r.code = 200
                                /\ r.payload.kind = "array"
                                /\ Len(r.payload.value) > 0
       /\ (store' # store \/ nextId' # nextId)
            => /\ EndsNow
               /\ last'.op = "create"
               /\ last'.outcome = "returned"
               /\ last'.value.status = "Success"
               /\ Len(store') = Len(store) + 1
               /\ SubSeq(store', 1, Len(store)) = store]_vars

(* A login has just returned Success / 200 with a token, over a store that *)
(* a successful register filled.                                           *)
C12_Witness ==
    /\ last.op = "login"
    /\ last.outcome = "returned"
    /\ last.value.status = "Success"
    /\ last.value.code = 200
    /\ IsToken(last.value.payload)
    /\ nCreated >= 1
    /\ Len(store) = nCreated

====
